---- MODULE Spec2Model ----
(***************************************************************************)
(* The sync orchestration engine of lobe-chat: class DataSync (the         *)
(* connection manager, the table bridge and the presence manager) and the  *)
(* two GlobalService entry points that drive it.                           *)
(*                                                                         *)
(* JavaScript runs one synchronous segment at a time; an async function    *)
(* is suspended at each await.  Every action below is one synchronous      *)
(* segment: the code from a call (or from the resumption of an await, or   *)
(* from an event or timer callback) up to the next await.                  *)
(*                                                                         *)
(* The collaborators are opaque: a Yjs document is a live flag, its table  *)
(* maps and the observers registered on them; a WebrtcProvider is its      *)
(* document, its connect parameters and the live flags of its awareness,   *)
(* room and itself; a local table is a map from identifier to record, and  *)
(* a record is its value.                                                  *)
(***************************************************************************)
EXTENDS Integers, Sequences, FiniteSets, TLC

(* ------------------------------ bounds -------------------------------- *)

\* operations the environment starts in one behaviour: API calls and
\* provider events
MaxOps == 3
\* async calls of the connection manager suspended at the same time
MaxInFlight == 2
\* records of the table that the bootstrap loads in batches
MaxRecords == 123

(* ------------------------- program constants -------------------------- *)

\* setTimeout(..., 1000) of the synced=false branch
RetryDelay == 1000
\* setTimeout(..., 2000) of the change observer
SettleDelay == 2000
\* const batchSize = 50
batchSize == 50
\* the granularity of the model's clock, in ms
Tick == RetryDelay

\* the closed set of table keys of initSync / initYjsObserve
Tables == <<"sessions", "sessionGroups", "topics", "messages", "plugins">>

\* the StartDataSyncParams objects the host passes: two different ones
Params == {1, 2}
\* the objects are interchangeable: the first one passed is called 1
FirstParams == {1}
\* null / undefined
Null == 0

\* the tables whose content the model keeps: the code treats all alike
ModelTables == {Tables[1], Tables[3]}
\* record identifiers and record values of the remote changes
Ids == {1, 2}
\* the clientIDs of remote peers (documents have the clientIDs 1, 2, ...),
\* and the users they present
Peers == {101, 102}
Users == {1, 2}
Vals == {1, 2}

VARIABLES
    hasWindow,          \* typeof window !== 'undefined'
    devMode,            \* process.env.NODE_ENV === 'development'
    ydoc,               \* this._ydoc: a document id, or Null
    provider,           \* this.provider: a provider id, or Null
    syncParams,         \* this.syncParams: a params id, or Null (undefined)
    onAwarenessChange,  \* this.onAwarenessChange: the params it came from
    devSlot,            \* window.__ONLY_USE_FOR_CLEANUP_IN_DEV
    docs,               \* every Doc constructed: [live, obs, maps]
    provs,              \* every WebrtcProvider constructed
    frames,             \* suspended async calls of the connection manager
    timers,             \* pending setTimeout callbacks
    db,                 \* LocalDBInstance: table -> (identifier -> record)
    apps,               \* observer callbacks suspended at their awaits
    boots,              \* synced=true handlers suspended in initSync
    sinceRemote,        \* ms since the last remote change (up to SettleDelay)
    nOps,               \* operations the environment has started
    lastParams,         \* the params of the latest startDataSync/reconnect call
    pass,               \* so far: what remote events touched, any write
                        \* rejected, any bootstrap load
    out                 \* what the last segment did, in order

vars == <<hasWindow, devMode, ydoc, provider, syncParams, onAwarenessChange,
          devSlot, docs, provs, frames, timers, db, apps, boots, sinceRemote,
          nOps, lastParams, pass, out>>

(* ------------------------------ helpers ------------------------------- *)

\* one effect of a segment: an operation on a collaborator or a callback;
\* by: the entry point served, or the table of the observer that did it
Ev(op, on, arg) ==
    [op |-> op, on |-> on, arg |-> arg, stale |-> FALSE, by |-> ""]
\* a release of resource `on`; stale: the resource had been released before
Rel(op, on, stale) ==
    [op |-> op, on |-> on, arg |-> 0, stale |-> stale, by |-> ""]

\* an effect of the table bridge for table t
Obs(op, t, on, arg) ==
    [op |-> op, on |-> on, arg |-> arg, stale |-> FALSE, by |-> t]

RemoveAt(s, i) == SubSeq(s, 1, i - 1) \o SubSeq(s, i + 1, Len(s))

Ops(s) == {s[i].op : i \in DOMAIN s}

LiveProviders == {p \in DOMAIN provs : provs[p].live}
LiveDocs == {d \in DOMAIN docs : docs[d].live}

(* --------------------------- cleanConnection -------------------------- *)

\* cleanConnection with the document destroyed first
cleanConnection_docFirst(p, room) ==
    IF p = Null
    THEN [provs |-> provs, docs |-> docs, ops |-> << Ev("cleanConnection", Null, 0) >>]
    ELSE LET pr == provs[p]
         IN [provs |-> [provs EXCEPT ![p] = [pr EXCEPT !.aw = FALSE, !.live = FALSE]],
             docs |-> IF ydoc = Null THEN docs
                      ELSE [docs EXCEPT ![ydoc].live = FALSE],
             ops |-> << Ev("cleanConnection", p, 0) >>
                     \o (IF ydoc = Null THEN <<>>
                         ELSE << Rel("doc.destroy", ydoc, ~docs[ydoc].live) >>)
                     \o << Rel("awareness.destroy", p, ~pr.aw),
                           Rel("provider.disconnect", p, ~pr.live),
                           Rel("provider.destroy", p, ~pr.live) >>]

\* The state after cleanConnection(p) and the releases it issued, in order.
\* provider.room is set by the transport some time after construction:
\* `room` says whether a live provider's room is set by now.
cleanConnection(p, room) ==
    IF p = Null
    THEN [provs |-> provs, docs |-> docs, ops |-> << Ev("cleanConnection", Null, 0) >>]
    ELSE LET pr == provs[p]
             hasRoom == pr.room = "destroyed" \/ (pr.live /\ room)
             roomOps == IF ~hasRoom THEN <<>>
                        ELSE << Rel("room.disconnect", p, pr.room = "destroyed"),
                                Rel("room.destroy", p, pr.room = "destroyed") >>
             docOps == IF ydoc = Null THEN <<>>
                       ELSE << Rel("doc.destroy", ydoc, ~docs[ydoc].live) >>
         IN [provs |-> [provs EXCEPT ![p] =
                          [pr EXCEPT !.aw = FALSE,
                                     !.room = IF hasRoom THEN "destroyed"
                                              ELSE "none",
                                     !.live = FALSE]],
             docs |-> IF ydoc = Null THEN docs
                      ELSE [docs EXCEPT ![ydoc].live = FALSE],
             ops |-> << Ev("cleanConnection", p, 0),
                        Rel("awareness.destroy", p, ~pr.aw) >>
                     \o roomOps
                     \o << Rel("provider.disconnect", p, ~pr.live),
                           Rel("provider.destroy", p, ~pr.live) >>
                     \o docOps]

(* ------------------------------ connect ------------------------------ *)

\* a suspended async call: which entry point it serves ("start",
\* "reconnect", "manual", "retry", or "global" for globalService.reconnect
\* before its manualSync), the parameters it connects with, where it
\* resumes, the provider whose synced=false event started it (retry only)
\* and the provider it handed to cleanConnection
Frame(kind, params, pc, origin, old) ==
    [kind |-> kind, params |-> params, pc |-> pc, origin |-> origin,
     old |-> old]

\* connect(params) from its first line to its first suspension: the
\* destructuring throws on undefined params; initYDoc returns at once
\* without a window and otherwise awaits import('yjs').  Nothing here
\* reads or writes what another call can change, so the segment that
\* calls connect (after its own await of cleanConnection, if any) is
\* taken to run up to this point.
connectEntry(params) ==
    IF params = Null THEN "throw"
    ELSE IF hasWindow THEN "initYDoc" ELSE "observe"

\* the frames after a call has reached connect(params)
Enter(fs, kind, params, origin, old) ==
    IF connectEntry(params) = "throw" THEN fs
    ELSE Append(fs, Frame(kind, params, connectEntry(params), origin, old))

Thrown(params) ==
    IF connectEntry(params) = "throw" THEN << Ev("throw", 0, 0) >> ELSE <<>>

\* states is awareness.getStates(): the presence states known, in the
\* order in which their clients became known
NewProvider(d, params) ==
    [doc |-> d, params |-> params, live |-> TRUE, aw |-> TRUE,
     room |-> "none", wired |-> FALSE, states |-> <<>>]

\* awareness.setLocalState({ clientID: awareness.clientID, user }): the
\* awareness of a provider has the clientID of the provider's document
setLocalState(d, params) == << [clientID |-> d, user |-> params] >>

\* what no segment of the connection manager touches
ConnUnchanged ==
    UNCHANGED <<hasWindow, devMode, timers, db, apps, boots, sinceRemote,
                pass>>

\* a map without entries; the maps of a new document; empty local tables
NoEntries == <<>>
NewMaps == [t \in ModelTables |-> NoEntries]
NoRecords == [t \in ModelTables |-> NoEntries]

\* a fresh DataSync in a given environment, with the local tables `tables`
Fresh(window, tables) ==
    /\ hasWindow = window
    /\ devMode \in BOOLEAN
    /\ ydoc = Null
    /\ provider = Null
    /\ syncParams = Null
    /\ onAwarenessChange = Null
    /\ devSlot = Null
    /\ docs = <<>>
    /\ provs = <<>>
    /\ frames = <<>>
    /\ timers = <<>>
    /\ db = tables
    /\ apps = <<>>
    /\ boots = <<>>
    /\ sinceRemote = SettleDelay
    /\ nOps = 0
    /\ lastParams = Null
    /\ pass = [touched |-> {}, failed |-> FALSE, loaded |-> FALSE]
    /\ out = <<>>

\* the module is loaded in a browser
Init == Fresh(TRUE, NoRecords)

(* --------------------------- entry points ----------------------------- *)

\* the parameters a call may be given
Args == IF lastParams = Null THEN FirstParams ELSE Params

\* dataSync.startDataSync(p), up to its first await
StartDataSync(p) ==
    /\ nOps < MaxOps
    /\ nOps' = nOps + 1
    /\ lastParams' = p
    /\ syncParams' = p
    /\ onAwarenessChange' = p
    /\ IF ~hasWindow
       THEN \* `window` is not defined: the read of the dev slot throws
            /\ out' = << Ev("throw", 0, 0) >>
            /\ UNCHANGED <<provs, docs, frames>>
       ELSE \E room \in BOOLEAN :
            LET c == cleanConnection(devSlot, room)
            IN /\ provs' = c.provs
               /\ docs' = c.docs
               /\ out' = IF devSlot = Null THEN <<>> ELSE c.ops
               /\ frames' = Enter(frames, "start", p, Null, devSlot)
    /\ UNCHANGED <<ydoc, provider, devSlot>>
    /\ ConnUnchanged

\* this.reconnect(params) up to the first suspension inside connect:
\* cleanConnection of the current provider, then connect's entry
reconnect(label, params) ==
    \E room \in BOOLEAN :
    LET c == cleanConnection(provider, room)
    IN /\ provs' = c.provs
       /\ docs' = c.docs
       /\ out' = label \o c.ops \o Thrown(params)

\* dataSync.reconnect(p), up to its first await
Reconnect(p) ==
    /\ nOps < MaxOps
    /\ nOps' = nOps + 1
    /\ lastParams' = p
    /\ reconnect(<<>>, p)
    /\ frames' = Enter(frames, "reconnect", p, Null, provider)
    /\ UNCHANGED <<ydoc, provider, devSlot, syncParams, onAwarenessChange>>
    /\ ConnUnchanged

\* dataSync.manualSync(), up to its first await
ManualSync ==
    /\ nOps < MaxOps
    /\ nOps' = nOps + 1
    /\ reconnect(<< Ev("manualSync", syncParams, 0) >>, syncParams)
    /\ frames' = Enter(frames, "manual", syncParams, Null, provider)
    /\ UNCHANGED <<ydoc, provider, devSlot, syncParams, onAwarenessChange,
                   lastParams>>
    /\ ConnUnchanged

\* globalService.enabledSync(p): the window test, then startDataSync(p)
EnabledSync(p) ==
    IF hasWindow
    THEN StartDataSync(p)
    ELSE /\ nOps < MaxOps
         /\ nOps' = nOps + 1
         /\ out' = << Ev("return", 0, 0) >>
         /\ UNCHANGED <<ydoc, provider, devSlot, syncParams, onAwarenessChange,
                        provs, docs, frames, lastParams>>
         /\ ConnUnchanged

\* globalService.reconnect(p): the window test, then syncBus.reconnect(p);
\* syncBus.manualSync() follows when that returns
GlobalReconnect(p) ==
    /\ nOps < MaxOps
    /\ nOps' = nOps + 1
    /\ IF hasWindow
       THEN /\ lastParams' = p
            /\ reconnect(<<>>, p)
            /\ frames' = Enter(frames, "global", p, Null, provider)
       ELSE /\ out' = << Ev("return", 0, 0) >>
            /\ UNCHANGED <<provs, docs, frames, lastParams>>
    /\ UNCHANGED <<ydoc, provider, devSlot, syncParams, onAwarenessChange>>
    /\ ConnUnchanged

(* ------------------------ resumptions of connect --------------------- *)


\* import('yjs') resolves inside initYDoc: this._ydoc = new Doc()
InitYDoc(i) ==
    LET id == Len(docs) + 1
    IN /\ frames[i].pc = "initYDoc"
       /\ docs' = Append(docs, [live |-> TRUE, obs |-> <<>>, maps |-> NewMaps])
       /\ ydoc' = id
       /\ frames' = [frames EXCEPT ![i].pc = "observe"]
       /\ out' = << Ev("doc.new", id, 0) >>
       /\ UNCHANGED <<provider, devSlot, syncParams, onAwarenessChange, provs,
                      nOps, lastParams>>
       /\ ConnUnchanged

\* initYDoc has returned: initYjsObserve registers one observer per table
\* on the maps of the current document (none when there is no document),
\* then connect awaits import('y-webrtc')
InitYjsObserve(i) ==
    LET f == frames[i]
    IN /\ f.pc = "observe"
       /\ IF ydoc = Null
          THEN /\ docs' = docs
               /\ out' = <<>>
          ELSE /\ docs' = [docs EXCEPT ![ydoc].obs = Append(@, f.params)]
               /\ out' = << Ev("observe", ydoc, f.params) >>
       /\ frames' = [frames EXCEPT ![i].pc = "provider"]
       /\ UNCHANGED <<ydoc, provider, devSlot, syncParams, onAwarenessChange,
                      provs, nOps, lastParams>>
       /\ ConnUnchanged

\* import('y-webrtc') resolves: the provider is constructed on the current
\* document, stored, its handlers registered and initAwareness run; connect
\* returns.  The constructor is given null when there is no document: what
\* the transport does with it is its own affair (it throws, or constructs).
CreateProvider(i) ==
    LET f == frames[i]
        id == Len(provs) + 1
        made == [Ev("provider.new", id, f.origin) EXCEPT !.by = f.kind]
    IN /\ f.pc = "provider"
       /\ \/ /\ ydoc = Null
             /\ frames' = RemoveAt(frames, i)
             /\ out' = << Ev("throw", 0, 0) >>
             /\ UNCHANGED <<provider, devSlot, provs>>
          \/ /\ provider' = id
             /\ IF devMode /\ ~hasWindow
                THEN \* the assignment to the dev slot throws
                     /\ provs' = Append(provs, NewProvider(ydoc, f.params))
                     /\ frames' = RemoveAt(frames, i)
                     /\ out' = << made, Ev("throw", 0, 0) >>
                     /\ UNCHANGED devSlot
                ELSE /\ devSlot' = IF devMode THEN id ELSE devSlot
                     /\ provs' = Append(provs,
                            [NewProvider(ydoc, f.params) EXCEPT
                               !.wired = TRUE,
                               !.states = setLocalState(ydoc, f.params)])
                     /\ out' = << made, Ev("awareness.setLocalState", id, f.params) >>
                               \o IF onAwarenessChange = Null THEN <<>>
                                  ELSE << Ev("onAwarenessChange", onAwarenessChange, id) >>
                     /\ frames' = IF f.kind # "global" THEN RemoveAt(frames, i)
                                  ELSE [frames EXCEPT ![i].pc = "return"]
       /\ UNCHANGED <<ydoc, syncParams, onAwarenessChange, docs, nOps, lastParams>>
       /\ ConnUnchanged

\* syncBus.reconnect has returned to globalService.reconnect, which calls
\* syncBus.manualSync(): reconnect(this.syncParams)
ThenManualSync(i) ==
    /\ frames[i].pc = "return"
    /\ reconnect(<< Ev("manualSync", syncParams, 0) >>, syncParams)
    /\ frames' = Enter(RemoveAt(frames, i), "manual", syncParams, Null, provider)
    /\ UNCHANGED <<ydoc, provider, devSlot, syncParams, onAwarenessChange,
                   nOps, lastParams>>
    /\ ConnUnchanged

(* --------------------------- provider events ------------------------- *)

\* a pending setTimeout: a "retry" of the provider `who` that raised
\* synced=false (cur: it was this.provider then), or a "settle" of the
\* observer obs of a table of document `who` (cur: the observer's
\* debounceTimer variable holds it)
Timer(kind, left, params, who, obs, table, cur) ==
    [kind |-> kind, left |-> left, params |-> params, who |-> who,
     obs |-> obs, table |-> table, cur |-> cur]

\* a peer list that leaves the local entry out
toUI_others(states, own) ==
    LET others == SelectSeq(states, LAMBDA st : st.clientID # own)
    IN [i \in DOMAIN others |->
          [user |-> others[i].user, clientID |-> others[i].clientID,
           current |-> FALSE]]

\* Array.from(awareness.getStates().values()).map(...): one entry per state
toUI(states, own) ==
    [i \in DOMAIN states |->
       [user |-> states[i].user, clientID |-> states[i].clientID,
        current |-> states[i].clientID = own]]

\* syncAwarenessToUI() when the providers are ps: the states of the
\* awareness of this.provider go to this.onAwarenessChange
syncAwarenessToUI(ps) ==
    IF provider = Null \/ onAwarenessChange = Null THEN <<>>
    ELSE << [Ev("syncAwarenessToUI", onAwarenessChange, provider)
               EXCEPT !.arg = toUI(ps[provider].states, ps[provider].doc)] >>

\* the awareness of provider p emits `change`: the state of the remote
\* client c has become [clientID |-> c, user |-> u], or has been removed
\* (u = Null); the handler registered by initAwareness runs
AwarenessChange(p, c, u) ==
    LET st == provs[p].states
        known == \E i \in DOMAIN st : st[i].clientID = c
        st2 == IF u = Null
               THEN SelectSeq(st, LAMBDA x : x.clientID # c)
               ELSE IF known
               THEN [i \in DOMAIN st |->
                       IF st[i].clientID = c THEN [st[i] EXCEPT !.user = u]
                       ELSE st[i]]
               ELSE Append(st, [clientID |-> c, user |-> u])
        ps == [provs EXCEPT ![p].states = st2]
    IN /\ nOps < MaxOps
       /\ provs[p].aw /\ provs[p].wired
       /\ u = Null => known
       /\ nOps' = nOps + 1
       /\ provs' = ps
       /\ out' = << Ev("awareness.change", p, c) >> \o syncAwarenessToUI(ps)
       /\ UNCHANGED <<ydoc, provider, devSlot, syncParams, onAwarenessChange,
                      docs, frames, lastParams>>
       /\ ConnUnchanged

\* provider.on('status', ...)
ProviderStatus(p, connected) ==
    /\ nOps < MaxOps
    /\ provs[p].live /\ provs[p].wired
    /\ nOps' = nOps + 1
    /\ out' = IF connected THEN << Ev("status:ready", provs[p].params, 0) >>
              ELSE <<>>
    /\ UNCHANGED <<ydoc, provider, devSlot, syncParams, onAwarenessChange,
                   docs, provs, frames, lastParams>>
    /\ ConnUnchanged

\* provider.on('synced', ...) with synced=false: the retry is scheduled
ProviderNotSynced(p) ==
    /\ nOps < MaxOps
    /\ provs[p].live /\ provs[p].wired
    /\ nOps' = nOps + 1
    /\ timers' = Append(timers,
                    Timer("retry", RetryDelay, provs[p].params, p, 0, "",
                          p = provider))
    /\ out' = <<>>
    /\ UNCHANGED <<hasWindow, devMode, ydoc, provider, devSlot, syncParams,
                   onAwarenessChange, docs, provs, frames, lastParams, pass,
                   db, apps, boots, sinceRemote>>

\* the retry timer's callback: status syncing, then this.reconnect(params)
\* up to its first await (the timeout is stale when the provider that
\* armed it has been torn down by now)
RetryFires(i) ==
    LET t == timers[i]
    IN /\ t.kind = "retry"
       /\ t.left = 0
       /\ timers' = RemoveAt(timers, i)
       /\ reconnect(<< [Ev("timeout", t.who, RetryDelay - t.left)
                          EXCEPT !.stale = ~provs[t.who].live],
                       Ev("status:syncing", t.params, 0) >>, t.params)
       /\ frames' = Enter(frames, "retry", t.params,
                          IF t.cur THEN t.who ELSE Null, provider)
       /\ UNCHANGED <<hasWindow, devMode, ydoc, provider, devSlot, syncParams,
                      onAwarenessChange, nOps, lastParams, pass,
                      db, apps, boots, sinceRemote>>

\* Tick ms pass; a timer that is due runs before the clock moves on
Advance ==
    /\ timers # <<>>
    /\ \A i \in DOMAIN timers : timers[i].left > 0
    /\ timers' = [i \in DOMAIN timers |->
                    [timers[i] EXCEPT !.left = @ - Tick]]
    /\ sinceRemote' = IF sinceRemote + Tick < SettleDelay
                      THEN sinceRemote + Tick ELSE SettleDelay
    /\ out' = <<>>
    /\ UNCHANGED <<hasWindow, devMode, ydoc, provider, devSlot, syncParams,
                   onAwarenessChange, docs, provs, frames, nOps, lastParams, pass,
                   db, apps, boots>>

(* ----------------------------- table bridge -------------------------- *)

\* maps from identifier to value: a Y.Map, a local table
Has(m, id) == id \in DOMAIN m
Get(m, id) == IF id \in DOMAIN m THEN m[id] ELSE Null
Put(m, id, v) == [k \in DOMAIN m \cup {id} |-> IF k = id THEN v ELSE m[k]]
Del(m, id) == [k \in DOMAIN m \ {id} |-> m[k]]

\* the elements of a set S of numbers within lo..hi in ascending order
RECURSIVE Between(_, _, _)
Between(S, lo, hi) ==
    IF S = {} THEN <<>>
    ELSE IF lo = hi THEN << lo >>
    ELSE LET mid == (lo + hi) \div 2
         IN Between({x \in S : x <= mid}, lo, mid)
            \o Between({x \in S : x > mid}, mid + 1, hi)

\* the elements of a set of numbers in ascending order
Ascending(S) ==
    IF S = {} THEN <<>>
    ELSE Between(S, CHOOSE y \in S : \A z \in S : y <= z,
                    CHOOSE y \in S : \A z \in S : z <= y)

\* table.toArray(): the records in primary-key order
toArray(m) ==
    LET ids == Ascending(DOMAIN m)
    IN [i \in DOMAIN ids |-> [id |-> ids[i], val |-> m[ids[i]]]]

\* an observer that handles local events too
abort_never(local) == FALSE

\* if (event.transaction.local) return;
abort(local) == local

\* an observer that adds whatever the get returned
notInTable_always(itemInTable) == TRUE

\* if (!itemInTable)
notInTable(itemInTable) == ~itemInTable

\* one invocation of the observer callback, suspended: the k-th observer
\* of table t of document d, with event.transaction.local and one entry of
\* `recs` per key of the event.  item is yItemMap.get(id), read when the
\* callback starts.  alone, was and
\* atEvent do not belong to the program: whether no other invocation has
\* handled the same identifier meanwhile, whether the identifier was in the
\* local table at the event, and the map's value at the event.
App(d, k, t, keys, local, m) ==
    [doc |-> d, obs |-> k, table |-> t, params |-> docs[d].obs[k],
     local |-> local,
     recs |-> [i \in DOMAIN keys |->
                 [id |-> keys[i].id, action |-> keys[i].action,
                  item |-> Get(m, keys[i].id),
                  pc |-> IF keys[i].action = "delete" THEN "delete" ELSE "get",
                  err |-> FALSE, alone |-> TRUE, was |-> FALSE,
                  atEvent |-> Null]]]

\* what the observers 1..k of table t of document d do, in order, with an
\* event that is not aborted: clearTimeout, status syncing, and for each key
\* the first call on the local table
RECURSIVE Handled(_, _, _, _, _)
Handled(d, t, keys, local, k) ==
    IF k = 0 THEN <<>>
    ELSE Handled(d, t, keys, local, k - 1)
         \o << Obs(IF local THEN "event.local" ELSE "event.remote", t, d, k),
               Obs("clearTimeout", t, d, k),
               Obs("status:syncing", t, docs[d].obs[k], 0) >>
         \o [i \in DOMAIN keys |->
               Obs(IF keys[i].action = "delete" THEN "table.delete"
                   ELSE "table.get", t, keys[i].id, 0)]

\* a transaction has changed table t of document d into m: the event is
\* delivered to every observer of that map.  st holds the invocations
\* started, the timers and the effects so far.
Deliver(d, t, keys, local, m, st) ==
    LET n == Len(docs[d].obs)
    IN IF abort(local)
       THEN [st EXCEPT !.ops = @ \o [k \in 1..n |-> Obs("event.local", t, d, k)]]
       ELSE [st EXCEPT
               !.apps = @ \o [k \in 1..n |-> App(d, k, t, keys, local, m)],
               !.timers = SelectSeq(@, LAMBDA x :
                              ~(x.kind = "settle" /\ x.who = d /\ x.table = t
                                /\ x.cur /\ n > 0)),
               !.ops = @ \o Handled(d, t, keys, local, n)]

\* the records of the invocations in flight that handle one of `ids` in
\* table t are no longer alone
Shared(as, t, ids) ==
    [a \in DOMAIN as |->
       IF as[a].table # t THEN as[a]
       ELSE [as[a] EXCEPT !.recs =
               [r \in DOMAIN @ |->
                  IF @[r].id \in ids THEN [@[r] EXCEPT !.alone = FALSE]
                  ELSE @[r]]]]

Busy(t, id) ==
    \E a \in DOMAIN apps : /\ apps[a].table = t
                           /\ \E r \in DOMAIN apps[a].recs : apps[a].recs[r].id = id

\* a transaction of a remote peer arrives on a live document through its
\* provider: ch gives the new value of each key it sets, Null for each key
\* it deletes
Remote(d, t, ch) ==
    LET m == docs[d].maps[t]
        ids == Ascending(DOMAIN ch)
        keys == [i \in DOMAIN ids |->
                   [id |-> ids[i],
                    action |-> IF ch[ids[i]] = Null THEN "delete"
                               ELSE IF Has(m, ids[i]) THEN "update" ELSE "add"]]
        m2 == [k \in {x \in DOMAIN m \cup DOMAIN ch :
                        x \in DOMAIN ch => ch[x] # Null} |->
                 IF k \in DOMAIN ch THEN ch[k] ELSE m[k]]
        st == Deliver(d, t, keys, FALSE, m2,
                      [apps |-> <<>>, timers |-> timers, ops |-> <<>>])
        noted(rec) == [rec EXCEPT
                         !.alone = Len(st.apps) = 1 /\ ~Busy(t, rec.id),
                         !.was = Has(db[t], rec.id),
                         !.atEvent = Get(m2, rec.id)]
        started == [a \in DOMAIN st.apps |->
                      [st.apps[a] EXCEPT !.recs =
                         [r \in DOMAIN @ |-> noted(@[r])]]]
    IN /\ nOps < MaxOps
       /\ docs[d].live
       /\ \E p \in DOMAIN provs : provs[p].live /\ provs[p].doc = d
       /\ \A id \in DOMAIN ch : ch[id] = Null => Has(m, id)
       /\ nOps' = nOps + 1
       /\ docs' = [docs EXCEPT ![d].maps[t] = m2]
       /\ apps' = Shared(apps, t, DOMAIN ch) \o started
       /\ timers' = st.timers
       /\ sinceRemote' = 0
       /\ pass' = [pass EXCEPT !.touched = @ \cup {<<t, id>> : id \in DOMAIN ch}]
       /\ out' = st.ops
       /\ UNCHANGED <<hasWindow, devMode, ydoc, provider, devSlot, syncParams,
                      onAwarenessChange, provs, frames, db, boots, lastParams>>

\* what no step of an observer callback touches
AppUnchanged ==
    UNCHANGED <<hasWindow, devMode, ydoc, provider, devSlot, syncParams,
                onAwarenessChange, docs, provs, frames, boots, sinceRemote,
                nOps, lastParams>>

\* await table.get(id) resolves: add when the record is missing, update
\* otherwise
TableGet(a, r) ==
    LET app == apps[a]
        rec == app.recs[r]
        call == IF notInTable(Has(db[app.table], rec.id)) THEN "add" ELSE "update"
    IN /\ rec.pc = "get"
       /\ apps' = [apps EXCEPT ![a].recs[r].pc = call]
       /\ out' = << Obs("table." \o call, app.table, rec.id, rec.item) >>
       /\ UNCHANGED <<db, timers, pass>>
       /\ AppUnchanged

\* the local table executes the pending add, update or delete: add rejects
\* when the key exists, update of a missing key changes nothing
TableWrite(a, r) ==
    LET app == apps[a]
        rec == app.recs[r]
        t == app.table
        there == Has(db[t], rec.id)
    IN /\ rec.pc \in {"add", "update", "delete"}
       /\ db' = [db EXCEPT ![t] =
                   CASE rec.pc = "add" /\ ~there -> Put(@, rec.id, rec.item)
                     [] rec.pc = "update" /\ there -> Put(@, rec.id, rec.item)
                     [] rec.pc = "delete" -> Del(@, rec.id)
                     [] OTHER -> @]
       /\ apps' = [apps EXCEPT ![a].recs[r] =
                     [rec EXCEPT !.pc = "done",
                                 !.err = rec.pc = "add" /\ there]]
       /\ out' = << [Obs("written", t, rec.id, rec.item)
                       EXCEPT !.stale = rec.pc = "add" /\ there] >>
       /\ pass' = [pass EXCEPT !.failed = @ \/ (rec.pc = "add" /\ there)]
       /\ UNCHANGED timers
       /\ AppUnchanged

\* a callback that ends, and drops what its other records still have to
\* do, as soon as one write has been rejected
Applied_onFirstFailure(a) ==
    /\ \/ \A r \in DOMAIN apps[a].recs : apps[a].recs[r].pc = "done"
       \/ \E r \in DOMAIN apps[a].recs : apps[a].recs[r].err
    /\ apps' = RemoveAt(apps, a)
    /\ out' = << Obs("rejected", apps[a].table, apps[a].doc, apps[a].obs) >>
    /\ UNCHANGED <<db, timers, pass>>
    /\ AppUnchanged

\* await Promise.all(pools) is over.  Resolved: updateSyncEvent(tableKey)
\* (the throttled onEvent) and debounceTimer = setTimeout(..., 2000);
\* rejected: the callback ends there.
Applied(a) ==
    LET app == apps[a]
        mine(x) == /\ x.kind = "settle" /\ x.who = app.doc
                   /\ x.obs = app.obs /\ x.table = app.table
    IN /\ \A r \in DOMAIN app.recs : app.recs[r].pc = "done"
       /\ apps' = RemoveAt(apps, a)
       /\ IF \E r \in DOMAIN app.recs : app.recs[r].err
          THEN /\ out' = << Obs("rejected", app.table, app.doc, app.obs) >>
               /\ UNCHANGED timers
          ELSE /\ out' = << Obs("updateSyncEvent", app.table, app.params, 0),
                            Obs("setTimeout", app.table, app.doc, app.obs) >>
               /\ timers' = Append(
                     [i \in DOMAIN timers |->
                        IF mine(timers[i]) THEN [timers[i] EXCEPT !.cur = FALSE]
                        ELSE timers[i]],
                     Timer("settle", SettleDelay, app.params, app.doc, app.obs,
                           app.table, TRUE))
       /\ UNCHANGED <<db, pass>>
       /\ AppUnchanged

\* the settle timer's callback: onSyncStatusChange('synced')
SettleFires(i) ==
    LET t == timers[i]
    IN /\ t.kind = "settle"
       /\ t.left = 0
       /\ timers' = RemoveAt(timers, i)
       /\ out' = << Obs("status:synced", t.table, t.params, sinceRemote) >>
       /\ UNCHANGED <<db, apps, pass>>
       /\ AppUnchanged

(* ------------------------------ bootstrap ----------------------------- *)

\* the number of batches rounded down
totalBatches_floor(n) == n \div batchSize

\* Math.ceil(items.length / batchSize)
totalBatches(n) ==
    IF n % batchSize = 0 THEN n \div batchSize ELSE n \div batchSize + 1

\* items.slice(start, end)
slice(items, start, end) ==
    SubSeq(items, start + 1, IF end < Len(items) THEN end ELSE Len(items))

\* provider.on('synced', ...) with synced=true, up to await initSync():
\* status syncing, and every loadDataFromDBtoYjs awaits its table.toArray().
\* prov is the provider whose handler runs; failed holds the tables whose
\* load has rejected.
ProviderSynced(p) ==
    /\ nOps < MaxOps
    /\ provs[p].live /\ provs[p].wired
    /\ nOps' = nOps + 1
    /\ boots' = Append(boots, [params |-> provs[p].params, prov |-> p,
                               pending |-> ModelTables, failed |-> {}])
    /\ out' = << Ev("status:syncing", provs[p].params, 0) >>
    /\ UNCHANGED <<hasWindow, devMode, ydoc, provider, devSlot, syncParams,
                   onAwarenessChange, docs, provs, frames, timers, db, apps,
                   sinceRemote, lastParams, pass>>

\* the transactions i..totalBatches of loadDataFromDBtoYjs, one after the
\* other: each sets its slice in the map and is a local transaction, whose
\* event every observer of the map receives before the next one starts
RECURSIVE Transact(_, _, _, _, _)
Transact(d, t, items, i, st) ==
    IF i >= totalBatches(Len(items)) THEN st
    ELSE LET start == i * batchSize
             batchItems == slice(items, start, start + batchSize)
             keys == [j \in DOMAIN batchItems |->
                        [id |-> batchItems[j].id,
                         action |-> IF Has(st.map, batchItems[j].id)
                                    THEN "update" ELSE "add"]]
             set == {batchItems[j].id : j \in DOMAIN batchItems}
             m2 == [k \in DOMAIN st.map \cup set |->
                      IF k \in set
                      THEN batchItems[CHOOSE j \in DOMAIN batchItems :
                                         batchItems[j].id = k].val
                      ELSE st.map[k]]
         IN Transact(d, t, items, i + 1,
                Deliver(d, t, keys, TRUE, m2,
                    [st EXCEPT !.map = m2,
                               !.ops = @ \o << Obs("transact", t, start,
                                                   Len(batchItems)) >>]))

\* what the synced=true handler does when the last load of its initSync
\* is over: status synced when Promise.all has resolved, nothing when it
\* has rejected
Synced(boot, failed) ==
    IF failed = {} THEN << Ev("status:synced", boot.params, boot.prov) >>
    ELSE << Ev("initSync.rejected", boot.params, boot.prov) >>

\* a bootstrap that gives up its other loads when one table's read rejects
LoadFails_abort(b, t) ==
    /\ t \in boots[b].pending
    /\ boots' = RemoveAt(boots, b)
    /\ out' = Synced(boots[b], {t})
    /\ UNCHANGED <<hasWindow, devMode, ydoc, provider, devSlot, syncParams,
                   onAwarenessChange, docs, provs, frames, timers, db, apps,
                   sinceRemote, nOps, lastParams, pass>>

\* table.toArray() of table t rejects in loadDataFromDBtoYjs: that load
\* ends, Promise.all rejects, the loads of the other tables go on
LoadFails(b, t) ==
    LET last == boots[b].pending = {t}
    IN /\ t \in boots[b].pending
       /\ boots' = IF last THEN RemoveAt(boots, b)
                   ELSE [boots EXCEPT ![b].pending = @ \ {t},
                                      ![b].failed = @ \cup {t}]
       /\ out' = IF last THEN Synced(boots[b], boots[b].failed \cup {t})
                 ELSE <<>>
       /\ UNCHANGED <<hasWindow, devMode, ydoc, provider, devSlot, syncParams,
                      onAwarenessChange, docs, provs, frames, timers, db, apps,
                      sinceRemote, nOps, lastParams, pass>>

\* table.toArray() of table t resolves in loadDataFromDBtoYjs: the batches
\* are transacted on the current document; when the last table is done,
\* the handler emits status synced
LoadTable(b, t) ==
    LET items == toArray(db[t])
        st == IF ydoc = Null
              THEN [map |-> NoEntries, apps |-> <<>>, timers |-> timers,
                    ops |-> << Obs("loadDataFromDBtoYjs", t, Null, Len(items)) >>]
              ELSE Transact(ydoc, t, items, 0,
                     [map |-> docs[ydoc].maps[t], apps |-> <<>>,
                      timers |-> timers,
                      ops |-> << Obs("loadDataFromDBtoYjs", t, ydoc, Len(items)) >>])
        last == boots[b].pending = {t}
    IN /\ t \in boots[b].pending
       /\ docs' = IF ydoc = Null THEN docs
                  ELSE [docs EXCEPT ![ydoc].maps[t] = st.map]
       /\ apps' = apps \o st.apps
       /\ timers' = st.timers
       /\ boots' = IF last THEN RemoveAt(boots, b)
                   ELSE [boots EXCEPT ![b].pending = @ \ {t}]
       /\ out' = st.ops \o IF last THEN Synced(boots[b], boots[b].failed)
                           ELSE <<>>
       /\ UNCHANGED <<hasWindow, devMode, ydoc, provider, devSlot, syncParams,
                      onAwarenessChange, provs, frames, db, sinceRemote, nOps,
                      lastParams>>
       /\ pass' = [pass EXCEPT !.loaded = TRUE]

(* --------------- calls made one after the other (no overlap) ---------- *)

\* every call, and every retry, runs to completion before the next starts;
\* provider events and the clock are free

Idle == frames = <<>>

\* a call or a timer callback may start another async call
Room == Len(frames) < MaxInFlight

NextSeq ==
    \/ \E p \in Args : Idle /\ StartDataSync(p)
    \/ \E p \in Args : Idle /\ Reconnect(p)
    \/ Idle /\ ManualSync
    \/ \E p \in Args : Idle /\ EnabledSync(p)
    \/ \E p \in Args : Idle /\ GlobalReconnect(p)
    \/ \E i \in DOMAIN frames : InitYDoc(i)
    \/ \E i \in DOMAIN frames : InitYjsObserve(i)
    \/ \E i \in DOMAIN frames : CreateProvider(i)
    \/ \E i \in DOMAIN frames : ThenManualSync(i)
    \/ \E p \in DOMAIN provs : ProviderNotSynced(p)
    \/ \E i \in DOMAIN timers : Idle /\ RetryFires(i)
    \/ Advance

SpecSeq == Init /\ [][NextSeq]_vars

(* ------------- the connection manager under any interleaving ---------- *)

\* the parameters play no part in the order of the segments: every call is
\* given the same object

Next ==
    \/ \E p \in FirstParams : Room /\ StartDataSync(p)
    \/ \E p \in FirstParams : Room /\ Reconnect(p)
    \/ Room /\ ManualSync
    \/ \E i \in DOMAIN frames : InitYDoc(i)
    \/ \E i \in DOMAIN frames : InitYjsObserve(i)
    \/ \E i \in DOMAIN frames : CreateProvider(i)
    \/ \E p \in DOMAIN provs : ProviderNotSynced(p)
    \/ \E i \in DOMAIN timers : Room /\ RetryFires(i)
    \/ Advance

Spec == Init /\ [][Next]_vars

\* one session is started; once it is established, reconnects of every
\* kind interleave
Established == provs # <<>>

NextReconnect ==
    \/ \E p \in Args : nOps = 0 /\ StartDataSync(p)
    \/ \E p \in Args : Established /\ Room /\ Reconnect(p)
    \/ Established /\ Room /\ ManualSync
    \/ \E i \in DOMAIN frames : InitYDoc(i)
    \/ \E i \in DOMAIN frames : InitYjsObserve(i)
    \/ \E i \in DOMAIN frames : CreateProvider(i)
    \/ \E p \in DOMAIN provs : ProviderNotSynced(p)
    \/ \E i \in DOMAIN timers : Room /\ RetryFires(i)
    \/ Advance

SpecReconnect == Init /\ [][NextReconnect]_vars

(* ------------------- one session and its table bridge ----------------- *)

\* the first local table holds nothing, or record 1
Seeded == {NoEntries, Put(NoEntries, 1, 1)}

\* a production build
InitObserve ==
    \E first \in Seeded :
        /\ Fresh(TRUE, [t \in ModelTables |->
                           IF t = Tables[1] THEN first ELSE NoEntries])
        /\ devMode = FALSE

\* one session is started; remote changes and the synced=true event arrive
NextObserve ==
    \/ \E p \in FirstParams : nOps = 0 /\ StartDataSync(p)
    \/ \E i \in DOMAIN frames : InitYDoc(i)
    \/ \E i \in DOMAIN frames : InitYjsObserve(i)
    \/ \E i \in DOMAIN frames : CreateProvider(i)
    \/ \E p \in DOMAIN provs : ProviderSynced(p)
    \/ \E b \in DOMAIN boots : \E t \in ModelTables : LoadTable(b, t)
    \/ \E d \in DOMAIN docs : \E t \in ModelTables :
         \E S \in SUBSET Ids \ {{}} : \E ch \in [S -> Vals \cup {Null}] :
            Remote(d, t, ch)
    \/ \E a \in DOMAIN apps : \E r \in DOMAIN apps[a].recs : TableGet(a, r)
    \/ \E a \in DOMAIN apps : \E r \in DOMAIN apps[a].recs : TableWrite(a, r)
    \/ \E a \in DOMAIN apps : Applied(a)
    \/ \E i \in DOMAIN timers : SettleFires(i)
    \/ Advance

SpecObserve == InitObserve /\ [][NextObserve]_vars

(* -------------------- the bootstrap of one large table --------------- *)

\* n records with the identifiers 1..n
Records(n) == [i \in 1..n |-> (i % 2) + 1]

\* the first table holds n records; synced=true is raised again only when
\* the load before is over
InitLoad ==
    \E n \in 0..MaxRecords :
        /\ Fresh(TRUE, [t \in ModelTables |->
                           IF t = Tables[1] THEN Records(n) ELSE NoEntries])
        /\ devMode = FALSE

NextLoad ==
    \/ \E p \in FirstParams : nOps = 0 /\ StartDataSync(p)
    \/ \E i \in DOMAIN frames : InitYDoc(i)
    \/ \E i \in DOMAIN frames : InitYjsObserve(i)
    \/ \E i \in DOMAIN frames : CreateProvider(i)
    \/ \E p \in DOMAIN provs : boots = <<>> /\ ProviderSynced(p)
    \/ \E b \in DOMAIN boots : \E t \in ModelTables : LoadTable(b, t)

SpecLoad == InitLoad /\ [][NextLoad]_vars

(* ------------- the bootstrap of a session and its reconnects ---------- *)

\* every table holds one record; a production build
InitBoot ==
    /\ Fresh(TRUE, [t \in ModelTables |-> Put(NoEntries, 1, 1)])
    /\ devMode = FALSE

\* one session is started; its provider raises status and synced=true, the
\* reads of the bootstrap resolve or reject, and reconnects interleave
NextBoot ==
    \/ \E p \in FirstParams : nOps = 0 /\ StartDataSync(p)
    \/ \E p \in FirstParams : Established /\ Room /\ Reconnect(p)
    \/ \E i \in DOMAIN frames : InitYDoc(i)
    \/ \E i \in DOMAIN frames : InitYjsObserve(i)
    \/ \E i \in DOMAIN frames : CreateProvider(i)
    \/ \E p \in DOMAIN provs : \E c \in BOOLEAN : ProviderStatus(p, c)
    \/ \E p \in DOMAIN provs : ProviderSynced(p)
    \/ \E b \in DOMAIN boots : \E t \in ModelTables : LoadTable(b, t)
    \/ \E b \in DOMAIN boots : \E t \in ModelTables : LoadFails(b, t)

SpecBoot == InitBoot /\ [][NextBoot]_vars

(* ----------------------- no runtime environment ----------------------- *)

\* the module is loaded where `window` is not defined
InitHeadless == Fresh(FALSE, NoRecords)

\* every entry point is called, in any interleaving; manualSync once
\* startDataSync has stored its parameters
NextHeadless ==
    \/ \E p \in Args : Room /\ StartDataSync(p)
    \/ \E p \in Args : Room /\ Reconnect(p)
    \/ syncParams # Null /\ Room /\ ManualSync
    \/ \E p \in Args : EnabledSync(p)
    \/ \E p \in Args : GlobalReconnect(p)
    \/ \E i \in DOMAIN frames : InitYjsObserve(i)
    \/ \E i \in DOMAIN frames : CreateProvider(i)

SpecHeadless == InitHeadless /\ [][NextHeadless]_vars

(* ------------------------------ presence ------------------------------ *)

\* one session is started; the presence of remote peers changes, and
\* reconnects replace the provider
NextPresence ==
    \/ \E p \in FirstParams : nOps = 0 /\ StartDataSync(p)
    \/ \E p \in FirstParams : Established /\ Room /\ Reconnect(p)
    \/ \E i \in DOMAIN frames : InitYDoc(i)
    \/ \E i \in DOMAIN frames : InitYjsObserve(i)
    \/ \E i \in DOMAIN frames : CreateProvider(i)
    \/ \E p \in DOMAIN provs : \E c \in Peers : \E u \in Users \cup {Null} :
         AwarenessChange(p, c, u)

SpecPresence == Init /\ [][NextPresence]_vars

(* ------------------------------ claims -------------------------------- *)

ReleaseOps == {"awareness.destroy", "room.disconnect", "room.destroy",
               "provider.disconnect", "provider.destroy", "doc.destroy"}

Released == SelectSeq(out, LAMBDA e : e.op \in ReleaseOps)

OpNames(s) == [i \in DOMAIN s |-> s[i].op]

\* C1 (as claimed): after any sequence of startDataSync / reconnect /
\* manualSync calls, each run to completion before the next, at most one
\* provider and at most one document are constructed and not destroyed.
C1_SingleActiveSession ==
    /\ Cardinality(LiveProviders) <= 1
    /\ Cardinality(LiveDocs) <= 1

\* C2 (as claimed): under every interleaving of reconnect executions at
\* their awaits, at most one constructed-and-not-destroyed provider exists.
C2_NoProviderLeaked ==
    Cardinality(LiveProviders) <= 1

\* C3 (as claimed): the session manualSync creates is connected with the
\* parameters of the most recent startDataSync(p) / reconnect(p) call.
C3_ManualSyncUsesLastParams ==
    \A i \in DOMAIN out :
        (out[i].op = "provider.new" /\ out[i].by = "manual")
            => provs[out[i].on].params = lastParams

\* C7 (as claimed): a synced=false event of the current provider makes the
\* retry run after exactly the 1-second delay, emit `syncing` and tear down
\* (the document included) and reconnect: when the retry constructs its
\* provider, the provider that raised the event, its awareness and its room
\* are released and the new provider is another one with the same
\* parameters.
C7_ReconnectPath ==
    /\ \A i \in DOMAIN out :
          out[i].op = "timeout"
            => /\ out[i].arg = RetryDelay
               /\ out[i + 1].op = "status:syncing"
               /\ out[i + 2].op = "cleanConnection"
               /\ ydoc # Null => "doc.destroy" \in Ops(out)
    /\ \A i \in DOMAIN out :
          (out[i].op = "provider.new" /\ out[i].by = "retry"
             /\ out[i].arg # Null)
            => LET o == provs[out[i].arg]
               IN /\ ~o.live /\ ~o.aw /\ o.room # "open"
                  /\ out[i].on # out[i].arg
                  /\ provs[out[i].on].params = o.params

\* C8: every teardown of an existing provider issues awareness.destroy,
\* then the room's disconnect and destroy (when the room is set), then the
\* provider's disconnect and destroy, then the document's destroy (when
\* there is a document), all on that provider; and a call that tore down a
\* provider constructs its document and its provider only afterwards: in
\* later segments, with that provider, its awareness and its room released.
C8_TeardownOrder ==
    /\ \A i \in DOMAIN out :
          (out[i].op = "cleanConnection" /\ out[i].on # Null)
            => /\ OpNames(Released) \in
                    { s \o d :
                        s \in { << "awareness.destroy", "provider.disconnect",
                                   "provider.destroy" >>,
                                << "awareness.destroy", "room.disconnect",
                                   "room.destroy", "provider.disconnect",
                                   "provider.destroy" >> },
                        d \in { <<>>, << "doc.destroy" >> } }
               /\ \A j \in DOMAIN Released :
                     Released[j].op # "doc.destroy" => Released[j].on = out[i].on
               /\ ("doc.destroy" \in Ops(out)) = (ydoc # Null)
               /\ Ops(out) \cap {"doc.new", "provider.new"} = {}
    /\ \A i \in DOMAIN frames :
          frames[i].old # Null
            => LET o == provs[frames[i].old]
               IN ~o.live /\ ~o.aw /\ o.room # "open"

\* C8 witness: a reconnect has just torn down a live provider whose room
\* was set, with all six releases, and is suspended in connect.
C8_Witness ==
    /\ Len(Released) = 6
    /\ \A j \in DOMAIN Released : ~Released[j].stale
    /\ \E i \in DOMAIN frames :
          /\ frames[i].kind = "reconnect"
          /\ frames[i].pc = "initYDoc"
          /\ frames[i].old = Released[1].on

\* C9 (as claimed): a teardown without a provider issues no release, and no
\* teardown issues a release on a resource that an earlier teardown has
\* released already (which is what a reference kept to a destroyed provider
\* would lead to).
C9_IdempotentTeardown ==
    \A i \in DOMAIN out :
        out[i].op = "cleanConnection"
          => /\ out[i].on = Null => Released = <<>>
             /\ \A j \in DOMAIN Released : ~Released[j].stale

\* C4: a segment in which an observer receives the event of a local
\* transaction starts no application (so no get, add, update or delete on a
\* local table), leaves the local tables and every timer as they are, and
\* has no observer effect: no status, no clearTimeout, no setTimeout, no
\* sync-event callback; and no application in flight stems from a local
\* event, those of the bootstrap load included.
C4_EchoSuppression ==
    [][ /\ (\E i \in DOMAIN out' : out'[i].op = "event.local")
           => /\ apps' = apps
              /\ db' = db
              /\ timers' = timers
              /\ \A i \in DOMAIN out' :
                    out'[i].by \in ModelTables
                      => out'[i].op \in {"event.local", "transact",
                                         "loadDataFromDBtoYjs"}
        /\ \A a \in DOMAIN apps' : ~apps'[a].local ]_vars

\* C4 witness: the bootstrap has transacted records into a map that has an
\* observer, which received the local event
C4_Witness ==
    /\ \E i \in DOMAIN out : out[i].op = "event.local"
    /\ \E i \in DOMAIN out : out[i].op = "transact" /\ out[i].arg > 0

\* C5: loading a table of n records issues ceil(n / 50) transactions in
\* record order, the j-th starting at record 50 (j - 1) and setting 50
\* records, the last one the remaining ones; afterwards the table's map
\* holds exactly the table's records.
C5_BatchCompleteness ==
    \A i \in DOMAIN out :
        out[i].op = "loadDataFromDBtoYjs"
          => LET t == out[i].by
                 n == Cardinality(DOMAIN db[t])
                 tx == SelectSeq(out, LAMBDA e : e.op = "transact" /\ e.by = t)
                 k == CHOOSE c \in 0..n :
                        /\ batchSize * c >= n
                        /\ \A b \in 0..(c - 1) : batchSize * b < n
             IN /\ out[i].arg = n
                /\ Len(tx) = k
                /\ \A j \in DOMAIN tx :
                      /\ tx[j].on = batchSize * (j - 1)
                      /\ tx[j].arg = IF j < k THEN batchSize
                                     ELSE n - batchSize * (k - 1)
                /\ ydoc # Null
                /\ DOMAIN docs[ydoc].maps[t] = DOMAIN db[t]
                /\ \A id \in DOMAIN db[t] : docs[ydoc].maps[t][id] = db[t][id]

\* C5 witness: 123 records have been loaded in transactions of 50, 50, 23
C5_Witness ==
    /\ \E i \in DOMAIN out :
          out[i].op = "loadDataFromDBtoYjs" /\ out[i].arg = MaxRecords
    /\ LET tx == SelectSeq(out, LAMBDA e : e.op = "transact")
       IN [i \in DOMAIN tx |-> tx[i].arg]
            = << batchSize, batchSize, MaxRecords - 2 * batchSize >>

\* C6 (as claimed): a remote change makes its observer emit `syncing` in
\* the same segment, and `synced` is emitted by a settle timer only when
\* 2000 ms have passed since the last remote change on any table.
C6_SettleDebounce ==
    /\ \A i \in DOMAIN out :
          out[i].op = "event.remote"
            => \E j \in DOMAIN out : /\ j > i
                                     /\ out[j].op = "status:syncing"
                                     /\ out[j].by = out[i].by
    /\ \A i \in DOMAIN out :
          (out[i].op = "status:synced" /\ out[i].by \in ModelTables)
            => sinceRemote >= SettleDelay

\* C10: for every key of a remote event: a delete is applied as delete(id)
\* and does not fail; an add or update that no other application shares
\* the identifier with is applied, after the get, as update when the
\* identifier was in the local table at the event and as add otherwise,
\* does not fail, and writes the value the map had at the event.
C10_ActionMapping ==
    \A a \in DOMAIN apps : \A r \in DOMAIN apps[a].recs :
        LET rec == apps[a].recs[r]
            row == db[apps[a].table]
        IN /\ rec.action = "delete"
              => /\ rec.pc \in {"delete", "done"}
                 /\ ~rec.err
                 /\ (rec.alone /\ rec.pc = "done") => ~Has(row, rec.id)
           /\ (rec.action \in {"add", "update"} /\ rec.alone)
              => /\ rec.pc \in {"get", IF rec.was THEN "update" ELSE "add",
                                "done"}
                 /\ ~rec.err
                 /\ rec.item = rec.atEvent
                 /\ rec.pc = "done" => Get(row, rec.id) = rec.atEvent

\* C10 witness: an `add` event for an identifier that is in the local
\* table with another value is being applied as an update
C10_Witness ==
    \E a \in DOMAIN apps : \E r \in DOMAIN apps[a].recs :
        LET rec == apps[a].recs[r]
        IN /\ rec.alone /\ rec.was
           /\ rec.action = "add"
           /\ rec.pc = "update"
           /\ rec.item # Get(db[apps[a].table], rec.id)

\* C17 (as claimed): every provider is constructed on a document on which
\* the observers of its own connect are registered already.
C17_ObserveBeforeTransport ==
    \A i \in DOMAIN out :
        out[i].op = "provider.new"
          => LET p == provs[out[i].on]
             IN /\ p.doc # Null
                /\ \E k \in DOMAIN docs[p.doc].obs : docs[p.doc].obs[k] = p.params
                /\ docs[p.doc].obs # <<>>

\* C18 (as claimed): no add reaches the local table when the table holds
\* the identifier already.
C18_NoInsertOfExisting ==
    \A i \in DOMAIN out : out[i].op = "written" => ~out[i].stale

\* C19 (as claimed): every provider constructed and not destroyed is bound
\* to a document that has not been destroyed.
C19_LiveProviderLiveDoc ==
    \A p \in LiveProviders :
        provs[p].doc # Null /\ docs[provs[p].doc].live

\* C20 (as claimed): a retry timer that fires when the provider that armed
\* it has been torn down and another provider has taken its place destroys
\* no provider and no document that was live.
C20_StaleRetryHarmless ==
    \A i \in DOMAIN out :
        (/\ out[i].op = "timeout"
         /\ out[i].stale
         /\ \E j \in DOMAIN out : /\ out[j].op = "cleanConnection"
                                   /\ out[j].on \notin {Null, out[i].on})
          => \A j \in DOMAIN Released : Released[j].stale

\* the identifiers of the records of an invocation, in order
RecIds(app) == [r \in DOMAIN app.recs |-> app.recs[r].id]

\* invocation y is invocation x one step later: the same observer, table
\* and records, none dropped, none taken back from done
Continues(x, y) ==
    /\ x.doc = y.doc /\ x.obs = y.obs /\ x.table = y.table
    /\ RecIds(x) = RecIds(y)
    /\ \A r \in DOMAIN x.recs :
          /\ x.recs[r].pc = "done" => y.recs[r] = x.recs[r]
          /\ x.recs[r].pc # "done" =>
                y.recs[r].pc \in {x.recs[r].pc, "add", "update", "done"}

\* C14: when the write of one record of a remote event has been rejected,
\* every other record of the same event keeps its pending call on the local
\* table in every step that follows, until that call has been executed: the
\* invocation is not ended and no sibling is dropped before all are done.
C14_PerRecordIsolation ==
    [][\A a \in DOMAIN apps :
          (/\ \E r \in DOMAIN apps[a].recs : apps[a].recs[r].err
           /\ \E r \in DOMAIN apps[a].recs : apps[a].recs[r].pc # "done")
            => \E b \in DOMAIN apps' : Continues(apps[a], apps'[b])]_vars

\* the add of one record of an event has been rejected, and the write of
\* another record of the same event is executed after that and stored
C14_Witness ==
    /\ Len(out) = 1 /\ out[1].op = "written" /\ ~out[1].stale
    /\ \E a \in DOMAIN apps :
          /\ apps[a].table = out[1].by
          /\ \E r1, r2 \in DOMAIN apps[a].recs :
                /\ apps[a].recs[r1].err
                /\ apps[a].recs[r2].id = out[1].on
                /\ apps[a].recs[r2].id # apps[a].recs[r1].id
                /\ apps[a].recs[r2].pc = "done" /\ ~apps[a].recs[r2].err
                /\ apps[a].recs[r2].alone
                /\ Get(db[apps[a].table], out[1].on) = apps[a].recs[r2].item

\* C16 (as claimed): when no invocation of an observer is in flight, no
\* write has been rejected and no bootstrap has changed the document
\* meanwhile, the local table agrees with the current
\* document's map on every identifier a remote event has touched: the
\* map's value when the map has the identifier, no record when it has not.
C16_StoreFollowsMap ==
    (apps = <<>> /\ ~pass.failed /\ ~pass.loaded /\ ydoc # Null)
      => \A x \in pass.touched :
            Get(db[x[1]], x[2]) = Get(docs[ydoc].maps[x[1]], x[2])

\* the records of table t are all set in the map of document d
LoadedInto(d, t) ==
    \A id \in DOMAIN db[t] : Get(docs[d].maps[t], id) = db[t][id]

\* C12 (as claimed): the `synced` of a synced=true handler is the last
\* thing its segment does, comes after the loads, and is emitted only when
\* every record of every table is set in the document of the provider that
\* raised the event.
C12_StatusSequence ==
    \A i \in DOMAIN out :
        (out[i].op = "status:synced" /\ out[i].by = "")
          => /\ i = Len(out)
             /\ \E j \in 1..(i - 1) : out[j].op = "loadDataFromDBtoYjs"
             /\ \A t \in ModelTables : LoadedInto(provs[out[i].arg].doc, t)

\* C15: while a bootstrap has more than one load pending, whatever happens
\* to one of them (its read resolves or rejects) the bootstrap goes on with
\* the others; and a load whose read resolves sets every record of its
\* table in the current document's map, whether a sibling has failed or not.
C15_PerTableIsolation ==
    [][\A b \in DOMAIN boots :
          Cardinality(boots[b].pending) > 1
            => \E c \in DOMAIN boots' :
                  /\ boots'[c].prov = boots[b].prov
                  /\ boots'[c].pending \subseteq boots[b].pending
                  /\ boots[b].failed \subseteq boots'[c].failed
                  /\ \A t \in boots[b].pending \ boots'[c].pending :
                        \/ t \in boots'[c].failed
                        \/ /\ \E i \in DOMAIN out' :
                                 /\ out'[i].op = "loadDataFromDBtoYjs"
                                 /\ out'[i].by = t
                           /\ \A id \in DOMAIN db[t] :
                                 Get(docs'[ydoc'].maps[t], id) = db[t][id]]_vars

\* the load of one table has rejected, and after that the load of another
\* table has set its record in the map
C15_Witness ==
    /\ \E i \in DOMAIN out : out[i].op = "initSync.rejected"
    /\ \E i \in DOMAIN out :
          /\ out[i].op = "loadDataFromDBtoYjs" /\ out[i].arg > 0
          /\ out[i].on = ydoc
          /\ docs[ydoc].maps[out[i].by] = db[out[i].by]

\* C13 (as claimed): without a window no operation raises an error, the
\* document handle stays null, no observer is registered and no provider is
\* constructed.
C13_HeadlessNoOps ==
    ~hasWindow
      => /\ \A i \in DOMAIN out : out[i].op # "throw"
         /\ ydoc = Null
         /\ \A d \in DOMAIN docs : docs[d].obs = <<>>
         /\ provs = <<>>
         /\ provider = Null

\* C11: whenever the awareness of the current provider emits `change`, the
\* awareness callback is called in the same segment with one entry per
\* state the awareness knows, in their order, each with the user and the
\* clientID of its state, and current is true for the entry of the local
\* clientID and for no other.
C11_PresenceRebroadcast ==
    \A i \in DOMAIN out :
        (out[i].op = "awareness.change" /\ out[i].on = provider)
          => /\ Len(out) = i + 1
             /\ out[i + 1].op = "syncAwarenessToUI"
             /\ out[i + 1].on = onAwarenessChange
             /\ LET list == out[i + 1].arg
                    known == provs[provider].states
                    own == provs[provider].doc
                IN /\ Len(list) = Len(known)
                   /\ \A k \in DOMAIN known :
                         /\ list[k].clientID = known[k].clientID
                         /\ list[k].user = known[k].user
                         /\ list[k].current = (known[k].clientID = own)
                   /\ \E k \in DOMAIN list :
                         list[k].clientID = own /\ list[k].current

\* the state of a second remote peer has changed: the callback gets the
\* local entry with current = true and both peers with current = false
C11_Witness ==
    /\ Len(out) = 2
    /\ out[1].op = "awareness.change" /\ out[1].on = provider
    /\ out[2].op = "syncAwarenessToUI"
    /\ Len(out[2].arg) = 3
    /\ out[2].arg[1].current /\ out[2].arg[1].clientID = provs[provider].doc
    /\ ~out[2].arg[2].current /\ ~out[2].arg[3].current
    /\ out[2].arg[3].clientID = out[1].arg

====
